---- MODULE Spec2Model ----
(***************************************************************************)
(* A model of the RAG backend: the vector store wrapper ChromaVectorDB     *)
(* (initializeCollection, addDocuments, queryDocuments, updateDocument,    *)
(* deleteDocuments), the ingestion run initDBfromCSV, the chunk extractor  *)
(* getClusteredText, generateResponse, main and the /search and /agent     *)
(* request handlers.                                                       *)
(*                                                                         *)
(* src/backend/gemini.ts holds three files one after the other: gemini.ts  *)
(* (lines 1-34), the express entry point (35-104) and vectorDB.ts          *)
(* (106-304).  Every await of the code is a suspension point: a call is    *)
(* modelled by one action that runs the code up to the await and one       *)
(* action per way the awaited promise settles.                             *)
(***************************************************************************)
EXTENDS Integers, Sequences, FiniteSets, TLC

VARIABLES
    dbCollections,  \* the vector index: the sequence of its collections, each [name, docs]
    collection,     \* ChromaVectorDB.collection: Null or the name of the collection it holds
    init,           \* the activation of initializeCollection
    call,           \* the activation of one add / query / update / delete call of a caller
    ingest,         \* the activation of initDBfromCSV
    tasks,          \* the per-article tasks of the batch initDBfromCSV is awaiting
    ext,            \* the activation of getClusteredText
    req,            \* the activation of the /agent handler
    gen,            \* the activation of generateResponse
    main,           \* the activation of main
    search          \* the activation of the /search handler

vars == <<dbCollections, collection, init, call, ingest, tasks, ext, req, gen, main, search>>

(***************************************************************************)
(* Bounds of the model.                                                    *)
(***************************************************************************)
MaxDocs == 2        \* longest document list given to one add call
MaxInitCalls == 2   \* number of initializeCollection calls in one run

(***************************************************************************)
(* Values.                                                                 *)
(***************************************************************************)
Null == "null"
NoEmbedding == <<"undefined">>
NoMetadata == [undefined |-> TRUE]
EmptyMetadata == [empty |-> TRUE]

CollectionNames == {"test_rag"}

NotInitialized == "Collection is not initialized"
EmbeddingFailed == "Failed to generate embedding"
IndexFailed == "index error"
InvalidResponse == "Invalid response structure"
NoError == "none"

Range(s) == {s[i] : i \in 1..Len(s)}

\* The vector embedding-001 returns for a text.
EmbeddingOf(text) == <<"embedding-001", text>>

\* The documents outside callers pass to the store: two ids, each with two
\* contents, with and without a precomputed embedding, with and without metadata.
DocIds == {<<0, 1>>, <<0, 2>>}
Contents == {"a", "b"}
PrecomputedEmbedding == <<"precomputed", "v">>
SomeMetadata == [category |-> "note"]
Document(id, content, embedding, metadata) ==
    [id |-> id, content |-> content, embedding |-> embedding, metadata |-> metadata]
Documents ==
    {Document(<<0, 1>>, "a", NoEmbedding, NoMetadata),
     Document(<<0, 1>>, "b", PrecomputedEmbedding, SomeMetadata),
     Document(<<0, 2>>, "b", NoEmbedding, SomeMetadata),
     Document(<<0, 2>>, "a", PrecomputedEmbedding, NoMetadata)}

DocumentLists == UNION {[1..n -> Documents] : n \in 0..MaxDocs}

(***************************************************************************)
(* The vector index service (Chroma), as the store uses it.  A collection  *)
(* is [name, docs]; a stored record is [id, embedding, metadata, document].*)
(***************************************************************************)
HasCollection(db, name) == \E i \in 1..Len(db) : db[i].name = name

\* client.getOrCreateCollection({name, metadata}): opens the collection of that
\* name, creating it when the index holds none.
GetOrCreateCollection(db, name) ==
    IF HasCollection(db, name) THEN db ELSE Append(db, [name |-> name, docs |-> {}])

\* client.countCollections()
CountCollections(db) == Len(db)

DocsOf(db, name) == UNION {db[i].docs : i \in {j \in 1..Len(db) : db[j].name = name}}

\* The first collection of that name with its records replaced.
WithDocs(db, name, docs) ==
    [i \in 1..Len(db) |->
        IF db[i].name = name /\ \A j \in 1..(i - 1) : db[j].name # name
        THEN [db[i] EXCEPT !.docs = docs] ELSE db[i]]

\* collection.add({ids, embeddings, metadatas, documents}): the four lists are
\* read by position; a record whose id the collection holds already is left as
\* it is.
IndexAdd(db, name, batch) ==
    LET old == DocsOf(db, name)
        n == Len(batch.ids)
        fresh == {i \in 1..n :
                    /\ batch.ids[i] \notin {r.id : r \in old}
                    /\ \A j \in 1..(i - 1) : batch.ids[j] # batch.ids[i]}
        recs == {[id |-> batch.ids[i], embedding |-> batch.embeddings[i],
                  metadata |-> batch.metadatas[i], document |-> batch.documents[i]] :
                 i \in fresh}
    IN WithDocs(db, name, old \cup recs)

\* collection.update({ids: [id], embeddings, metadatas, documents})
IndexUpdate(db, name, batch) ==
    LET old == DocsOf(db, name)
        upd(r) == IF r.id = batch.ids[1]
                  THEN [id |-> r.id,
                        embedding |-> IF batch.embeddings[1] = NoEmbedding
                                      THEN r.embedding ELSE batch.embeddings[1],
                        metadata |-> batch.metadatas[1],
                        document |-> batch.documents[1]]
                  ELSE r
    IN WithDocs(db, name, {upd(r) : r \in old})

\* collection.delete({ids})
IndexDelete(db, name, ids) ==
    WithDocs(db, name, {r \in DocsOf(db, name) : r.id \notin ids})

\* Cosine distance, as far as the model tells vectors apart.
Distance(e1, e2) == IF e1 = e2 THEN 0 ELSE 1

Min(a, b) == IF a < b THEN a ELSE b

\* collection.query({queryEmbeddings: [q], nResults}): the nResults records
\* nearest to q, nearest first; records at the same distance come in any order.
IndexQuery(db, name, q, nResults) ==
    LET docs == DocsOf(db, name)
        n == Min(nResults, Cardinality(docs))
    IN {s \in [1..n -> docs] :
          /\ \A i, j \in 1..n : i # j => s[i] # s[j]
          /\ \A i, j \in 1..n : i < j => Distance(s[i].embedding, q) <= Distance(s[j].embedding, q)
          /\ \A r \in docs \ Range(s) :
                \A i \in 1..n : Distance(s[i].embedding, q) <= Distance(r.embedding, q)}

(***************************************************************************)
(* ChromaVectorDB: addDocuments, queryDocuments, updateDocument and        *)
(* deleteDocuments.  An activation is a frame:                             *)
(*   op, pc ("idle", "embed": awaiting embeddings, "index": awaiting the   *)
(*   index, "ok": resolved, "err": rejected with err), docs and emb (the   *)
(*   documents of an add and the state of each one's embedding), target    *)
(*   and batch (the collection and the payload of the index call issued),  *)
(*   embedCalls / indexCalls (calls this activation has issued so far),    *)
(*   base (history, kept for a caller's add: the records the index held    *)
(*   when the call was made).                                              *)
(***************************************************************************)
DefaultTopK == 5

EmptyBatch == [ids |-> <<>>, embeddings |-> <<>>, metadatas |-> <<>>, documents |-> <<>>]

IdleCall ==
    [op |-> "none", pc |-> "idle", docs |-> <<>>, emb |-> <<>>, text |-> "",
     topK |-> 0, target |-> Null, batch |-> EmptyBatch, err |-> NoError,
     result |-> <<>>, embedCalls |-> 0, indexCalls |-> 0, base |-> {}]

\* if (!this.collection) throw new Error('Collection is not initialized')
GuardSkipped(coll) == FALSE

CollectionMissing(coll) == coll = Null

Rejected(frame, error) == [frame EXCEPT !.pc = "err", !.err = error]

Pending(frame) == {i \in 1..Len(frame.emb) : frame.emb[i] = "pending"}

\* doc.metadata || {}
MetadataOrEmpty(doc) == IF doc.metadata = NoMetadata THEN EmptyMetadata ELSE doc.metadata

\* The payload of collection.add: four lists read off docsWithEmbeddings.
AddBatch(docs) ==
    [ids |-> [i \in 1..Len(docs) |-> docs[i].id],
     embeddings |-> [i \in 1..Len(docs) |-> docs[i].embedding],
     metadatas |-> [i \in 1..Len(docs) |-> MetadataOrEmpty(docs[i])],
     documents |-> [i \in 1..Len(docs) |-> docs[i].content]]

\* Promise.all has resolved: await this.collection.add({...}) is issued on the
\* handle the store holds now.
IssueAdd(frame, coll) ==
    [frame EXCEPT !.pc = "index", !.target = coll, !.batch = AddBatch(frame.docs),
                  !.indexCalls = @ + 1]

\* A variant that asks for the embedding of every document, precomputed or not.
AddDocumentsCallEmbedAll(coll, documents) ==
    LET emb == [i \in 1..Len(documents) |-> "pending"]
        started == [IdleCall EXCEPT !.op = "add", !.pc = "embed", !.docs = documents,
                                    !.emb = emb, !.embedCalls = Len(documents)]
    IN IF CollectionMissing(coll)
       THEN Rejected([IdleCall EXCEPT !.op = "add", !.docs = documents], NotInitialized)
       ELSE IF Pending(started) = {} THEN IssueAdd(started, coll) ELSE started

\* addDocuments up to its first await: the guard, then one generateEmbedding
\* call for every document that carries no embedding.
AddDocumentsCall(coll, documents) ==
    LET emb == [i \in 1..Len(documents) |->
                  IF documents[i].embedding = NoEmbedding THEN "pending" ELSE "given"]
        started == [IdleCall EXCEPT !.op = "add", !.pc = "embed", !.docs = documents,
                                    !.emb = emb,
                                    !.embedCalls = Cardinality({i \in 1..Len(emb) : emb[i] = "pending"})]
    IN IF CollectionMissing(coll)
       THEN Rejected([IdleCall EXCEPT !.op = "add", !.docs = documents], NotInitialized)
       ELSE IF Pending(started) = {} THEN IssueAdd(started, coll) ELSE started

\* generateEmbedding of document j resolved: the mapper returns the document
\* with its embedding; the last one to resolve resolves Promise.all.
EmbeddingResolved(frame, j, coll) ==
    LET got == [frame EXCEPT !.emb[j] = "ok",
                             !.docs[j].embedding = EmbeddingOf(frame.docs[j].content)]
    IN IF Pending(got) = {} THEN IssueAdd(got, coll) ELSE got

\* A variant that drops the failed document and carries on with the others.
EmbeddingSkipped(frame, j, coll) ==
    LET got == [frame EXCEPT !.emb[j] = "failed"]
    IN IF Pending(got) = {} THEN IssueAdd(got, coll) ELSE got

\* generateEmbedding of document j threw: Promise.all rejects, the catch of
\* addDocuments rethrows.  What the other embedding calls return is dropped.
EmbeddingRejected(frame, j, coll) ==
    Rejected([frame EXCEPT !.emb[j] = "failed"], EmbeddingFailed)

\* queryDocuments up to its first await.
QueryDocumentsCall(coll, queryText, topK) ==
    LET started == [IdleCall EXCEPT !.op = "query", !.text = queryText, !.topK = topK]
    IN IF CollectionMissing(coll)
       THEN Rejected(started, NotInitialized)
       ELSE [started EXCEPT !.pc = "embed", !.embedCalls = 1]

\* The query embedding resolved: collection.query is issued.
QueryEmbeddingResolved(frame, coll) ==
    [frame EXCEPT !.pc = "index", !.target = coll, !.indexCalls = @ + 1]

\* A map that reads results.documents[index][0] for results.documents[0][index]:
\* every document gets the content of the first one at best.
ReconstituteMisindexed(records) ==
    [i \in 1..Len(records) |->
        [id |-> records[i].id, content |-> IF i = 1 THEN records[1].document ELSE "",
         embedding |-> records[i].embedding, metadata |-> records[i].metadata]]

\* results.ids[0].map(...): the records of the answer as documents.
Reconstitute(records) ==
    [i \in 1..Len(records) |->
        [id |-> records[i].id, content |-> records[i].document,
         embedding |-> records[i].embedding, metadata |-> records[i].metadata]]

\* updateDocument up to its await.
UpdateDocumentCall(coll, document) ==
    LET started == [IdleCall EXCEPT !.op = "update", !.docs = <<document>>]
    IN IF CollectionMissing(coll)
       THEN Rejected(started, NotInitialized)
       ELSE [started EXCEPT !.pc = "index", !.target = coll, !.indexCalls = 1,
                            !.batch = AddBatch(<<document>>)]

\* deleteDocuments up to its await.
DeleteDocumentsCall(coll, ids) ==
    LET started == [IdleCall EXCEPT !.op = "delete", !.batch = [EmptyBatch EXCEPT !.ids = ids]]
    IN IF CollectionMissing(coll)
       THEN Rejected(started, NotInitialized)
       ELSE [started EXCEPT !.pc = "index", !.target = coll, !.indexCalls = 1]

IdLists == UNION {[1..n -> DocIds] : n \in 0..MaxDocs}
QueryTexts == Contents

storeOnly == <<ingest, tasks, ext, req, gen, main, search>>

AddCall ==
    /\ call.pc = "idle"
    /\ \E documents \in DocumentLists :
         call' = [AddDocumentsCall(collection, documents) EXCEPT
                     !.base = DocsOf(dbCollections, "test_rag")]
    /\ UNCHANGED <<dbCollections, collection, init, storeOnly>>

AddEmbeddingSettle ==
    /\ call.op = "add" /\ call.pc = "embed"
    /\ \E j \in Pending(call) :
         \/ call' = EmbeddingResolved(call, j, collection)
         \/ call' = EmbeddingRejected(call, j, collection)
    /\ UNCHANGED <<dbCollections, collection, init, storeOnly>>

AddWriteSettle ==
    /\ call.op = "add" /\ call.pc = "index"
    /\ \/ /\ dbCollections' = IndexAdd(dbCollections, call.target, call.batch)
          /\ call' = [call EXCEPT !.pc = "ok"]
       \/ /\ call' = Rejected(call, IndexFailed)
          /\ UNCHANGED dbCollections
    /\ UNCHANGED <<collection, init, storeOnly>>

QueryCall ==
    /\ call.pc = "idle"
    /\ \E text \in QueryTexts : call' = QueryDocumentsCall(collection, text, DefaultTopK)
    /\ UNCHANGED <<dbCollections, collection, init, storeOnly>>

QueryEmbeddingSettle ==
    /\ call.op = "query" /\ call.pc = "embed"
    /\ \/ call' = QueryEmbeddingResolved(call, collection)
       \/ call' = Rejected(call, EmbeddingFailed)
    /\ UNCHANGED <<dbCollections, collection, init, storeOnly>>

QueryIndexSettle ==
    /\ call.op = "query" /\ call.pc = "index"
    /\ \/ \E records \in IndexQuery(dbCollections, call.target, EmbeddingOf(call.text), call.topK) :
            call' = [call EXCEPT !.pc = "ok", !.result = Reconstitute(records)]
       \/ call' = Rejected(call, InvalidResponse)
       \/ call' = Rejected(call, IndexFailed)
    /\ UNCHANGED <<dbCollections, collection, init, storeOnly>>

UpdateCall ==
    /\ call.pc = "idle"
    /\ \E document \in Documents : call' = UpdateDocumentCall(collection, document)
    /\ UNCHANGED <<dbCollections, collection, init, storeOnly>>

UpdateSettle ==
    /\ call.op = "update" /\ call.pc = "index"
    /\ \/ /\ dbCollections' = IndexUpdate(dbCollections, call.target, call.batch)
          /\ call' = [call EXCEPT !.pc = "ok"]
       \/ /\ call' = Rejected(call, IndexFailed)
          /\ UNCHANGED dbCollections
    /\ UNCHANGED <<collection, init, storeOnly>>

DeleteCall ==
    /\ call.pc = "idle"
    /\ \E ids \in IdLists : call' = DeleteDocumentsCall(collection, ids)
    /\ UNCHANGED <<dbCollections, collection, init, storeOnly>>

DeleteSettle ==
    /\ call.op = "delete" /\ call.pc = "index"
    /\ \/ /\ dbCollections' = IndexDelete(dbCollections, call.target, Range(call.batch.ids))
          /\ call' = [call EXCEPT !.pc = "ok"]
       \/ /\ call' = Rejected(call, IndexFailed)
          /\ UNCHANGED dbCollections
    /\ UNCHANGED <<collection, init, storeOnly>>

\* The caller has its answer and may call again.
CallReturn ==
    /\ call.pc \in {"ok", "err"}
    /\ call' = IdleCall
    /\ UNCHANGED <<dbCollections, collection, init, storeOnly>>

(***************************************************************************)
(* initDBfromCSV: the activation is [pc, n, i, results]: pc is "idle",     *)
(* "readCSV" (awaiting readCSV), "batch" (awaiting the Promise.all of the  *)
(* batch that starts at article i + 1), "returned" or "threw"; n is        *)
(* dataCSV.length.  Article k of the list has URL k.                       *)
(***************************************************************************)
BATCH_SIZE == 5

IdleIngest == [pc |-> "idle", n |-> 0, i |-> 0, results |-> <<>>]

\* initDBfromCSV up to its first await: readCSV(csvFile) is issued.
InitDBfromCSVCall == [IdleIngest EXCEPT !.pc = "readCSV"]

(***************************************************************************)
(* initializeCollection: the activation is [pc, name, calls, emptyAtCall,  *)
(* backfills, completed]: pc is "idle", "getOrCreate" (awaiting            *)
(* getOrCreateCollection),                                                 *)
(* "count" (awaiting countCollections), "backfill" (awaiting               *)
(* initDBfromCSV), "done" or "failed"; calls counts the calls made so far; *)
(* emptyAtCall records whether the index held no collection when this call *)
(* was made; backfills counts the initDBfromCSV calls this call has made;  *)
(* completed is history: the number of calls that have returned normally.  *)
(***************************************************************************)
IdleInit ==
    [pc |-> "idle", name |-> Null, calls |-> 0, emptyAtCall |-> FALSE, backfills |-> 0,
     completed |-> 0]

\* if (collectionCount === 0)
BackfillAlways(collectionCount) == TRUE

BackfillWanted(collectionCount) == collectionCount = 0

InitializeCall ==
    /\ init.pc \in {"idle", "done", "failed"}
    /\ init.calls < MaxInitCalls
    /\ \E name \in CollectionNames :
         init' = [pc |-> "getOrCreate", name |-> name, calls |-> init.calls + 1,
                  emptyAtCall |-> (Len(dbCollections) = 0), backfills |-> 0,
                  completed |-> init.completed]
    /\ UNCHANGED <<dbCollections, collection, call, storeOnly>>

\* this.collection = await this.client.getOrCreateCollection(...): the handle is
\* assigned as soon as the call resolves, then countCollections is issued.
GetOrCreateSettle ==
    /\ init.pc = "getOrCreate"
    /\ \/ /\ dbCollections' = GetOrCreateCollection(dbCollections, init.name)
          /\ collection' = init.name
          /\ init' = [init EXCEPT !.pc = "count"]
       \/ /\ init' = [init EXCEPT !.pc = "failed"]
          /\ UNCHANGED <<dbCollections, collection>>
    /\ UNCHANGED <<call, storeOnly>>

\* countCollections settled: the backfill is started when it answered 0.
CountSettle ==
    /\ init.pc = "count"
    /\ \/ IF BackfillWanted(CountCollections(dbCollections))
          THEN /\ init' = [init EXCEPT !.pc = "backfill", !.backfills = @ + 1]
               /\ ingest' = InitDBfromCSVCall
          ELSE /\ init' = [init EXCEPT !.pc = "done", !.completed = @ + 1]
               /\ UNCHANGED ingest
       \/ /\ init' = [init EXCEPT !.pc = "failed"]
          /\ UNCHANGED ingest
    /\ UNCHANGED <<dbCollections, collection, call, tasks, ext, req, gen, main, search>>

(***************************************************************************)
(* getClusteredText.  What the generative model answers is modelled as     *)
(* [fenced, body]: fenced tells whether the answer is wrapped in a         *)
(* ```json ... ``` fence; body is [kind, elems]: kind "garbage" (no JSON), *)
(* "object" (JSON that is no array) or "array" with its elements.  An      *)
(* element is [isNull, heading, content]: heading is "string" or "other"   *)
(* (missing, or no string); content is [kind, length, ticks]: kind         *)
(* "string" or "other", its length in characters, and the number of ```    *)
(* sequences the string holds.                                             *)
(***************************************************************************)
MAX_RETRIES == 1
MIN_CONTENT_LENGTH == 100
FenceLength == 3        \* the length of ```
MaxBlocks == 2          \* longest array the generative model answers
MaxTextLen == 2         \* longest article text, in symbols

NotString == [kind |-> "other", length |-> 0, ticks |-> 0]

BlockContents ==
    {NotString} \cup
    {[kind |-> "string", length |-> l, ticks |-> t] :
        l \in {0, MIN_CONTENT_LENGTH - 1, MIN_CONTENT_LENGTH, MIN_CONTENT_LENGTH + FenceLength},
        t \in {0}} \cup
    {[kind |-> "string", length |-> l, ticks |-> 1] :
        l \in {MIN_CONTENT_LENGTH, MIN_CONTENT_LENGTH + FenceLength}}

NullElement == [isNull |-> TRUE, heading |-> "other", content |-> NotString]

Elements ==
    {NullElement} \cup [isNull : {FALSE}, heading : {"string", "other"}, content : BlockContents]

Bodies ==
    {[kind |-> "garbage", elems |-> <<>>], [kind |-> "object", elems |-> <<>>]} \cup
    {[kind |-> "array", elems |-> e] : e \in UNION {[1..n -> Elements] : n \in 0..MaxBlocks}}

Answers == [fenced : BOOLEAN, body : Bodies]

GenerationFailed == [fenced |-> FALSE, body |-> [kind |-> "thrown", elems |-> <<>>]]

\* The article text: a string over the double quote, the single quote and any
\* other character.
TextSymbols == {"\"", "'", "x"}
Texts == UNION {[1..n -> TextSymbols] : n \in 0..MaxTextLen}

\* text.replace(/"/g, "'")
Sanitize(text) == [i \in 1..Len(text) |-> IF text[i] = "\"" THEN "'" ELSE text[i]]

\* answer.replace(/```json/g, '').replace(/```/g, '').trim(): the fence around
\* the answer goes, and so does every ``` inside it.
StripContent(c) ==
    [kind |-> c.kind, length |-> c.length - FenceLength * c.ticks, ticks |-> 0]

StripFences(answer) ==
    [kind |-> answer.body.kind,
     elems |-> [i \in 1..Len(answer.body.elems) |->
                  [answer.body.elems[i] EXCEPT !.content = StripContent(@)]]]

\* JSON.parse(answer) throws on text that is no JSON.
ParseThrows(stripped) == stripped.kind = "garbage"

\* A block check that forgets the length.
BlockValidNoLength(b) ==
    /\ ~b.isNull
    /\ b.heading = "string"
    /\ b.content.kind = "string"

\* typeof b.heading === 'string' && typeof b.content === 'string' &&
\* b.content.length >= MIN_CONTENT_LENGTH (reading b.heading of null throws,
\* which fails the attempt like an invalid block does)
BlockValid(b) ==
    /\ ~b.isNull
    /\ b.heading = "string"
    /\ b.content.kind = "string"
    /\ b.content.length >= MIN_CONTENT_LENGTH

\* Array.isArray(parsed) && parsed.every(...)
IsValid(parsed) ==
    /\ parsed.kind = "array"
    /\ \A i \in 1..Len(parsed.elems) : BlockValid(parsed.elems[i])

\* One attempt too many.
MoreAttemptsInclusive(attempt) == attempt <= MAX_RETRIES

\* attempt < MAX_RETRIES
MoreAttempts(attempt) == attempt < MAX_RETRIES

(***************************************************************************)
(* The activation of getClusteredText is [pc, prompt, attempt, genCalls,   *)
(* answers, result]: pc is "idle", "generate" (awaiting generateResponse), *)
(* "returned" or "threw"; answers is history: what each generateResponse   *)
(* call settled with.                                                      *)
(***************************************************************************)
IdleExt ==
    [pc |-> "idle", prompt |-> <<>>, attempt |-> 0, genCalls |-> 0, answers |-> <<>>,
     result |-> <<>>]

\* The head of the for loop: the next generateResponse(prompt) call is issued,
\* or the loop is over and [] is returned.
LoopHead(frame) ==
    IF MoreAttempts(frame.attempt)
    THEN [frame EXCEPT !.pc = "generate", !.genCalls = @ + 1]
    ELSE [frame EXCEPT !.pc = "returned", !.result = <<>>]

\* getClusteredText up to its first await.
GetClusteredTextCall(text) == LoopHead([IdleExt EXCEPT !.prompt = Sanitize(text)])

\* generateResponse settled with an answer: strip, parse, validate; return the
\* parsed array, or log the error and go round the loop.
AnswerSettled(frame, answer) ==
    LET seen == [frame EXCEPT !.answers = Append(@, answer)]
        parsed == StripFences(answer)
    IN IF ~ParseThrows(parsed) /\ IsValid(parsed)
       THEN [seen EXCEPT !.pc = "returned", !.result = parsed.elems]
       ELSE LoopHead([seen EXCEPT !.attempt = @ + 1])

\* generateResponse threw (generateStreamingResponse rethrows every error of
\* the stream as one Error): the catch logs it and the loop goes on.
GenerationThrew(frame) ==
    LoopHead([frame EXCEPT !.answers = Append(@, GenerationFailed), !.attempt = @ + 1])

extractOnly == <<dbCollections, collection, init, call, ingest, tasks, req, gen, main, search>>

ExtractCall ==
    /\ ext.pc = "idle"
    /\ \E text \in Texts : ext' = GetClusteredTextCall(text)
    /\ UNCHANGED extractOnly

GenerateSettle ==
    /\ ext.pc = "generate"
    /\ \/ \E answer \in Answers : ext' = AnswerSettled(ext, answer)
       \/ ext' = GenerationThrew(ext)
    /\ UNCHANGED extractOnly

\* The caller has the blocks and may call again.
ExtractReturn ==
    /\ ext.pc = "returned"
    /\ ext' = IdleExt
    /\ UNCHANGED extractOnly

(***************************************************************************)
(* The per-article task of initDBfromCSV (the async callback of batch.map).*)
(* A task is [pc, scraped, extracted, add, error, raised]: pc is "waiting" *)
(* (its batch                                                              *)
(* has not started), "fetch" (awaiting scrapeArticle), "extract" (awaiting *)
(* getClusteredText), "add" (awaiting addDocuments, whose activation is    *)
(* add), "ok" (returned {success: true}), "fail" (returned {success:       *)
(* false, error}) or "thrown" (rejected); raised is history: the error     *)
(* that was thrown while the article was processed, NoError when none was; *)
(* extracted is the number of blocks getClusteredText returned, NotYet     *)
(* before it has returned and once the task has settled.                   *)
(***************************************************************************)
MaxArticles == 6    \* longest article list readCSV returns

ArticleCounts == {0, 1, MaxArticles}

\* The task's scrapedArticle before scrapeArticle has returned, and after the
\* task has returned.
NotScraped == [title |-> Null, content |-> Null, url |-> 0, time |-> Null]

NotYet == -1

IdleTask ==
    [pc |-> "waiting", scraped |-> NotScraped, extracted |-> NotYet, add |-> IdleCall,
     error |-> NoError, raised |-> NoError]

\* What scrapeArticle returns: the page as markdown, or its sentinel when the
\* request or the parsing failed.
ScrapedPage(url) == [title |-> "title", content |-> "markdown", url |-> url, time |-> "time"]
Sentinel(url) == [title |-> "Can not load information", content |-> "", url |-> url, time |-> Null]

\* How a scrapeArticle call goes: the page is fetched and parsed, the request
\* fails, it times out after 10 s, or the parsing of the answer throws.
ScrapeOutcomes == {"page", "requestFailed", "timedOut", "parseThrew"}

\* A scrapeArticle call that rejected.
ScrapeRejected(url) == [title |-> "rejected", content |-> "rejected", url |-> url, time |-> Null]

\* A variant whose try block ends after axios.get: an error of the parsing
\* rejects the call.
ScrapeArticleParseUncaught(url, outcome) ==
    CASE outcome = "page" -> ScrapedPage(url)
      [] outcome = "parseThrew" -> ScrapeRejected(url)
      [] OTHER -> Sentinel(url)

\* scrapeArticle: everything it does is inside one try block whose catch
\* returns the sentinel.
ScrapeArticle(url, outcome) ==
    IF outcome = "page" THEN ScrapedPage(url) ELSE Sentinel(url)

\* What getClusteredText returns to the task: the empty list, or blocks that
\* passed its validation (a block's content is modelled by its length).
ExtractedLists ==
    {<<>>,
     <<[isNull |-> FALSE, heading |-> "string",
        content |-> [kind |-> "string", length |-> MIN_CONTENT_LENGTH, ticks |-> 0]]>>}

\* A variant that falls back to the whole article as one chunk when the
\* extractor returned nothing.
ChunkDocumentsWholeArticle(url, scraped, chunks) ==
    LET whole == <<[isNull |-> FALSE, heading |-> scraped.title,
                    content |-> [kind |-> "string", length |-> 0, ticks |-> 0]]>>
        used == IF chunks = <<>> THEN whole ELSE chunks
    IN [index \in 1..Len(used) |->
        [id |-> <<url, index - 1>>,
         content |-> [heading |-> used[index].heading, content |-> used[index].content,
                      time |-> scraped.time, url |-> url],
         embedding |-> NoEmbedding,
         metadata |-> [category |-> "article", title |-> scraped.title,
                       chunkTitle |-> used[index].heading,
                       time |-> IF scraped.time = Null THEN "unknown" ELSE scraped.time,
                       url |-> url, source |-> "source"]]]

\* splitedArticle.map((chunk, index) => ({id, content, metadata}))
ChunkDocuments(url, scraped, chunks) ==
    [index \in 1..Len(chunks) |->
        [id |-> <<url, index - 1>>,
         content |-> [heading |-> chunks[index].heading, content |-> chunks[index].content,
                      time |-> scraped.time, url |-> url],
         embedding |-> NoEmbedding,
         metadata |-> [category |-> "article", title |-> scraped.title,
                       chunkTitle |-> chunks[index].heading,
                       time |-> IF scraped.time = Null THEN "unknown" ELSE scraped.time,
                       url |-> url, source |-> "source"]]]

\* return { success: true, url: URL }
TaskReturned(task) ==
    [pc |-> "ok", scraped |-> NotScraped, extracted |-> NotYet, add |-> IdleCall,
     error |-> NoError, raised |-> task.raised]

\* A task without the try/catch: the error rejects the task's promise.
TaskUncaught(task, error) ==
    [pc |-> "thrown", scraped |-> NotScraped, extracted |-> NotYet, add |-> IdleCall,
     error |-> error, raised |-> task.raised]

\* catch (error) { return { success: false, url: URL, error } }
TaskCaught(task, error) ==
    [pc |-> "fail", scraped |-> NotScraped, extracted |-> NotYet, add |-> IdleCall,
     error |-> error, raised |-> task.raised]

\* History: error was thrown while the task's article was processed.
Raised(task, error) == [task EXCEPT !.raised = error]

InFlight == {"fetch", "extract", "add"}
Settled == {"ok", "fail"}

\* dataCSV.slice(i, i + BATCH_SIZE): the articles i + 1 .. BatchEnd(i, n).
BatchEndOffByOne(i, n) == Min(i + BATCH_SIZE + 1, n)

BatchEnd(i, n) == Min(i + BATCH_SIZE, n)

BatchOf(i, n) == (i + 1)..BatchEnd(i, n)

\* batch.map(async ...) runs every callback up to its first await: each task
\* of the batch has issued scrapeArticle(URL).
Launch(ts, batch) ==
    [k \in DOMAIN ts |-> IF k \in batch THEN [IdleTask EXCEPT !.pc = "fetch"] ELSE ts[k]]

\* A join that resolves with the first task to settle.
AnySettled(ts, batch) == \E k \in batch : ts[k].pc \in Settled \cup {"thrown"}

\* A join that waits until every task of the batch has succeeded.
AllSucceeded(ts, batch) == \A k \in batch : ts[k].pc = "ok"

\* await Promise.all(...): resolved once every task of the batch has resolved,
\* rejected as soon as one has rejected.
BatchSettled(ts, batch) ==
    IF \E k \in batch : ts[k].pc = "thrown" THEN TRUE
    ELSE \A k \in batch : ts[k].pc \in Settled

\* The value a task's promise resolved with.
TaskResult(k, task) == [success |-> task.pc = "ok", url |-> k, error |-> task.error]

\* A push in front of the results there are (results.unshift).
PushResultsInFront(results, ts, i, n) ==
    [j \in 1..(BatchEnd(i, n) - i) |-> TaskResult(i + j, ts[i + j])] \o results

\* results.push(...batchResults): the results of the batch in list order.
PushResults(results, ts, i, n) ==
    results \o [j \in 1..(BatchEnd(i, n) - i) |-> TaskResult(i + j, ts[i + j])]

ingestOnly == <<init, call, ext, req, gen, main, search>>

\* A caller (initializeCollection, or any holder of the store) calls initDBfromCSV.
IngestCall ==
    /\ ingest.pc = "idle"
    /\ ingest' = InitDBfromCSVCall
    /\ UNCHANGED <<dbCollections, collection, tasks, ingestOnly>>

\* readCSV settled: with the list, the first batch is launched (or the empty
\* result list is returned); with an error, the catch of initDBfromCSV rethrows.
ReadCSVSettle ==
    /\ ingest.pc = "readCSV"
    /\ \/ \E n \in ArticleCounts :
            /\ ingest' = [ingest EXCEPT !.n = n, !.pc = IF n > 0 THEN "batch" ELSE "returned"]
            /\ tasks' = Launch([k \in 1..n |-> IdleTask], BatchOf(0, n))
       \/ /\ ingest' = [ingest EXCEPT !.pc = "threw"]
          /\ UNCHANGED tasks
    /\ UNCHANGED <<dbCollections, collection, ingestOnly>>

\* scrapeArticle settled (it never rejects): getClusteredText is called with
\* the content it returned.
TaskFetchSettle ==
    /\ \E k \in DOMAIN tasks :
         /\ tasks[k].pc = "fetch"
         /\ \E scraped \in {ScrapedPage(k), Sentinel(k)} :
              tasks' = [tasks EXCEPT ![k].pc = "extract", ![k].scraped = scraped]
    /\ UNCHANGED <<dbCollections, collection, ingest, ingestOnly>>

\* getClusteredText settled (it never rejects): the chunks become documents
\* and addDocuments is called; an error it throws at once is caught.
TaskExtractSettle ==
    /\ \E k \in DOMAIN tasks :
         /\ tasks[k].pc = "extract"
         /\ \E chunks \in ExtractedLists :
              LET documents == ChunkDocuments(k, tasks[k].scraped, chunks)
                  add == AddDocumentsCall(collection, documents)
              IN tasks' = [tasks EXCEPT ![k] =
                              IF add.pc = "err" THEN TaskCaught(Raised(@, add.err), add.err)
                              ELSE [@ EXCEPT !.pc = "add", !.add = add,
                                             !.extracted = Len(chunks)]]
    /\ UNCHANGED <<dbCollections, collection, ingest, ingestOnly>>

\* An embedding call of the task's addDocuments settled.
TaskEmbeddingSettle ==
    /\ \E k \in DOMAIN tasks :
         /\ tasks[k].pc = "add" /\ tasks[k].add.pc = "embed"
         /\ \E j \in Pending(tasks[k].add) :
              \/ tasks' = [tasks EXCEPT ![k].add = EmbeddingResolved(@, j, collection)]
              \/ LET error == EmbeddingRejected(tasks[k].add, j, collection).err
                 IN tasks' = [tasks EXCEPT ![k] = TaskCaught(Raised(@, error), error)]
    /\ UNCHANGED <<dbCollections, collection, ingest, ingestOnly>>

\* collection.add of the task's addDocuments settled.
TaskWriteSettle ==
    /\ \E k \in DOMAIN tasks :
         /\ tasks[k].pc = "add" /\ tasks[k].add.pc = "index"
         /\ \/ /\ dbCollections' = IndexAdd(dbCollections, tasks[k].add.target, tasks[k].add.batch)
               /\ tasks' = [tasks EXCEPT ![k] = TaskReturned(@)]
            \/ /\ tasks' = [tasks EXCEPT ![k] = TaskCaught(Raised(@, IndexFailed), IndexFailed)]
               /\ UNCHANGED dbCollections
    /\ UNCHANGED <<collection, ingest, ingestOnly>>

\* Promise.all of the batch settled: its results are pushed and the loop goes
\* on with the next batch, or returns results after the last one; a rejected
\* task rejects initDBfromCSV.
BatchJoin ==
    /\ ingest.pc = "batch"
    /\ BatchSettled(tasks, BatchOf(ingest.i, ingest.n))
    /\ IF \E k \in BatchOf(ingest.i, ingest.n) : tasks[k].pc = "thrown"
       THEN /\ ingest' = [ingest EXCEPT !.pc = "threw"]
            /\ UNCHANGED tasks
       ELSE LET next == ingest.i + BATCH_SIZE
            IN /\ ingest' = [ingest EXCEPT
                                !.results = PushResults(ingest.results, tasks, ingest.i, ingest.n),
                                !.i = next,
                                !.pc = IF next < ingest.n THEN "batch" ELSE "returned"]
               /\ tasks' = IF next < ingest.n
                           THEN Launch(tasks, BatchOf(next, ingest.n))
                           ELSE tasks
    /\ UNCHANGED <<dbCollections, collection, ingestOnly>>

(***************************************************************************)
(* The /agent handler.  A query is a string, modelled as a sequence of     *)
(* symbols: the two schemes the handler's regular expression knows, white  *)
(* space, and any other character; NotAString is a body without a string   *)
(* query.  The activation is [pc, query, fetchLog, queryLog, q, context,   *)
(* written]: pc is "idle", "fetch" (awaiting scrapeArticle), "query"       *)
(* (awaiting queryDocuments, whose activation is q), "generate" (reading   *)
(* the stream), "ended" (res.end), "error500" (the 500 answer was sent) or *)
(* "broken" (the catch could not send it); fetched is history (how the     *)
(* scrapeArticle call went); fetchLog and queryLog list the                *)
(* scrapeArticle and queryDocuments calls the handler has made; written    *)
(* counts the chunks written to the response.                              *)
(***************************************************************************)
AgentTopK == 7
MaxQueryLen == 5    \* longest query, in symbols
MaxStream == 2      \* most chunks one generated answer streams

Schemes == {"http://", "https://"}
Space == " "
QuerySymbols == Schemes \cup {Space, "x"}
NotAString == <<"undefined">>
Queries == UNION {[1..n -> QuerySymbols] : n \in 0..MaxQueryLen} \cup {NotAString}

\* /(https?:\/\/[^\s]+)/g matches from position i: a scheme and at least one
\* more character that is no white space.
MatchesAt(query, i) ==
    /\ query[i] \in Schemes
    /\ i < Len(query)
    /\ query[i + 1] # Space

\* Where the match that starts at i ends: [^\s]+ takes every character up to
\* the next white space.
MatchEnd(query, i) ==
    CHOOSE j \in i..Len(query) :
        /\ \A m \in (i + 1)..j : query[m] # Space
        /\ (j = Len(query) \/ query[j + 1] = Space)

MatchStarts(query) == {i \in 1..Len(query) : MatchesAt(query, i)}

\* The last element of the match list.
LastUrl(query) ==
    LET i == CHOOSE m \in MatchStarts(query) :
                \A o \in MatchStarts(query) : o > m => o <= MatchEnd(query, m)
    IN SubSeq(query, i, MatchEnd(query, i))

\* urls[0]
FirstUrl(query) ==
    LET i == CHOOSE m \in MatchStarts(query) : \A o \in MatchStarts(query) : m <= o
    IN SubSeq(query, i, MatchEnd(query, i))

\* History: how the scrapeArticle call of the request went and what it returned.
NoFetch == [outcome |-> "none", article |-> NotScraped]

IdleReq ==
    [pc |-> "idle", query |-> <<>>, fetchLog |-> <<>>, queryLog |-> <<>>, q |-> IdleCall,
     fetched |-> NoFetch, context |-> <<>>, written |-> 0]

\* The catch of the handler: res.status(500).json(...), which throws once a
\* chunk has been written to the response.
Answer500(frame) ==
    [frame EXCEPT !.pc = IF frame.written = 0 THEN "error500" ELSE "broken", !.q = IdleCall]

\* The context is there: generateStreamingResponse(prompt) is started.
StartGenerate(frame, context) ==
    [frame EXCEPT !.pc = "generate", !.context = context, !.q = IdleCall]

\* The handler up to its first await: query.match(urlRegex) throws when query
\* is no string; with a match the first URL is scraped, without one the store
\* is queried for the 7 nearest documents.
AgentCall(coll, query) ==
    LET started == [IdleReq EXCEPT !.query = query]
    IN IF query = NotAString THEN Answer500(started)
       ELSE IF MatchStarts(query) # {}
       THEN [started EXCEPT !.pc = "fetch", !.fetchLog = <<FirstUrl(query)>>]
       ELSE LET q == QueryDocumentsCall(coll, query, AgentTopK)
                asked == [started EXCEPT !.queryLog = <<[text |-> query, topK |-> AgentTopK]>>]
            IN IF q.pc = "err" THEN Answer500(asked)
               ELSE [asked EXCEPT !.pc = "query", !.q = q]

\* chunks.map((chunk) => chunk.content).join("\n\n\n")
JoinContents(chunks) == [i \in 1..Len(chunks) |-> chunks[i].content]

agentOnly == <<dbCollections, collection, init, call, ingest, tasks, ext, gen, main, search>>

AgentRequest ==
    /\ req.pc = "idle"
    /\ \E query \in Queries : req' = AgentCall(collection, query)
    /\ UNCHANGED agentOnly

\* scrapeArticle(url) settled: the content of what it returned is the context;
\* a rejection would be caught by the handler.
AgentFetchSettle ==
    /\ req.pc = "fetch"
    /\ \E outcome \in ScrapeOutcomes :
         LET url == req.fetchLog[1]
             article == ScrapeArticle(url, outcome)
             seen == [req EXCEPT !.fetched = [outcome |-> outcome, article |-> article]]
         IN req' = IF article = ScrapeRejected(url) THEN Answer500(seen)
                   ELSE StartGenerate(seen, <<article.content>>)
    /\ UNCHANGED agentOnly

AgentQueryEmbeddingSettle ==
    /\ req.pc = "query" /\ req.q.pc = "embed"
    /\ \/ req' = [req EXCEPT !.q = QueryEmbeddingResolved(@, collection)]
       \/ req' = Answer500(req)
    /\ UNCHANGED agentOnly

AgentQueryIndexSettle ==
    /\ req.pc = "query" /\ req.q.pc = "index"
    /\ \/ \E records \in IndexQuery(dbCollections, req.q.target, EmbeddingOf(req.q.text), req.q.topK) :
            req' = StartGenerate(req, JoinContents(Reconstitute(records)))
       \/ req' = Answer500(req)
    /\ UNCHANGED agentOnly

\* for await (const chunk of generateStreamingResponse(prompt)) res.write(chunk)
AgentStreamChunk ==
    /\ req.pc = "generate" /\ req.written < MaxStream
    /\ req' = [req EXCEPT !.written = @ + 1]
    /\ UNCHANGED agentOnly

\* The stream is over: res.end()
AgentStreamEnd ==
    /\ req.pc = "generate"
    /\ req' = [req EXCEPT !.pc = "ended"]
    /\ UNCHANGED agentOnly

\* The stream threw, at its start or after some chunks.
AgentStreamFail ==
    /\ req.pc = "generate"
    /\ req' = Answer500(req)
    /\ UNCHANGED agentOnly

\* The next request.
AgentDone ==
    /\ req.pc \in {"ended", "error500", "broken"}
    /\ req' = IdleReq
    /\ UNCHANGED agentOnly

\* The records the index holds while requests are served.
AgentRecords ==
    {[id |-> <<1, 0>>, embedding |-> EmbeddingOf(<<"x">>), metadata |-> EmptyMetadata,
      document |-> "first"],
     [id |-> <<2, 0>>, embedding |-> EmbeddingOf(<<"x", "x">>), metadata |-> EmptyMetadata,
      document |-> "second"]}

(***************************************************************************)
(* main and the /search handler.  main is [pc]: "start", "init" (awaiting  *)
(* initializeCollection), "listening" (app.listen was called) or "crashed" *)
(* (main rejected).  The server takes requests once app.listen was called. *)
(* The activation of /search is [pc, query, q, failed, response]: pc is    *)
(* "idle", "query" (awaiting queryDocuments, whose activation is q) or     *)
(* "done" (the handler has returned); failed is history: the catch of the  *)
(* handler ran; response is what was sent to the client.                   *)
(***************************************************************************)
IdleMain == [pc |-> "start"]

\* main without the await: app.listen is called right after
\* initializeCollection was.
MainCallNoAwait(m) == [m EXCEPT !.pc = "listening"]

\* main up to its await: initializeCollection("test_rag") was called.
MainCall(m) == [m EXCEPT !.pc = "init"]

Listening(m) == m.pc = "listening"

NoResponse == [status |-> 0, body |-> <<>>]

IdleSearch ==
    [pc |-> "idle", query |-> <<>>, q |-> IdleCall, failed |-> FALSE, response |-> NoResponse]

\* The queries of the requests the server is sent.
SearchQueries == {<<"x">>, <<"x", "x">>}
ServerAgentQueries == {NotAString, <<"x">>, <<"https://", "x">>}

\* catch (error) { console.error("Error querying", error) }: nothing is sent.
SearchFailed(frame) == [frame EXCEPT !.pc = "done", !.failed = TRUE, !.q = IdleCall]

\* res.json({ chunks })
SearchAnswered(frame, chunks) ==
    [frame EXCEPT !.pc = "done", !.q = IdleCall, !.response = [status |-> 200, body |-> chunks]]

\* The handler up to its await: clientDB.queryDocuments(query).
SearchCall(coll, query) ==
    LET q == QueryDocumentsCall(coll, query, DefaultTopK)
        started == [IdleSearch EXCEPT !.query = query]
    IN IF q.pc = "err" THEN SearchFailed(started)
       ELSE [started EXCEPT !.pc = "query", !.q = q]

mainOnly == <<dbCollections, collection, call, ingest, tasks, ext, req, gen, search>>
searchOnly == <<dbCollections, collection, init, call, ingest, tasks, ext, req, gen, main>>

MainStart ==
    /\ main.pc = "start"
    /\ main' = MainCall(main)
    /\ init' = [pc |-> "getOrCreate", name |-> "test_rag", calls |-> init.calls + 1,
                emptyAtCall |-> (Len(dbCollections) = 0), backfills |-> 0,
                completed |-> init.completed]
    /\ UNCHANGED mainOnly

\* initializeCollection resolved: app.listen(PORT)
MainListen ==
    /\ main.pc = "init" /\ init.pc = "done"
    /\ main' = [main EXCEPT !.pc = "listening"]
    /\ UNCHANGED <<init, mainOnly>>

\* initializeCollection rejected: so does main, app.listen is not reached.
MainCrash ==
    /\ main.pc = "init" /\ init.pc = "failed"
    /\ main' = [main EXCEPT !.pc = "crashed"]
    /\ UNCHANGED <<init, mainOnly>>

SearchRequest ==
    /\ Listening(main)
    /\ search.pc = "idle"
    /\ \E query \in SearchQueries : search' = SearchCall(collection, query)
    /\ UNCHANGED searchOnly

SearchEmbeddingSettle ==
    /\ search.pc = "query" /\ search.q.pc = "embed"
    /\ \/ search' = [search EXCEPT !.q = QueryEmbeddingResolved(@, collection)]
       \/ search' = SearchFailed(search)
    /\ UNCHANGED searchOnly

SearchIndexSettle ==
    /\ search.pc = "query" /\ search.q.pc = "index"
    /\ \/ \E records \in IndexQuery(dbCollections, search.q.target,
                                     EmbeddingOf(search.q.text), search.q.topK) :
            search' = SearchAnswered(search, Reconstitute(records))
       \/ search' = SearchFailed(search)
    /\ UNCHANGED searchOnly

\* The next request.
SearchDone ==
    /\ search.pc = "done"
    /\ search' = IdleSearch
    /\ UNCHANGED searchOnly

\* A request to /agent, which the server takes once it listens.
ServerAgentRequest ==
    /\ Listening(main)
    /\ req.pc = "idle"
    /\ \E query \in ServerAgentQueries : req' = AgentCall(collection, query)
    /\ UNCHANGED agentOnly

(***************************************************************************)
(* generateStreamingResponse and generateResponse.  A chunk's text is a    *)
(* sequence of characters.  The activation is [pc, arrived, fullResponse,  *)
(* result, err]: pc is "idle", "start" (awaiting generateContentStream),   *)
(* "stream" (awaiting the next chunk), "returned" or "threw"; arrived is   *)
(* history: the texts of the chunks the stream has delivered.              *)
(***************************************************************************)
MaxChunks == 3      \* most chunks one stream delivers

ChunkTexts == {<<>>, <<"a">>, <<"b">>, <<"a", "b">>}

GenerationError == "generation failed"
NoResult == <<"undefined">>

IdleGen ==
    [pc |-> "idle", arrived |-> <<>>, fullResponse |-> <<>>, result |-> NoResult,
     err |-> NoError]

\* fullResponse = chunk
ConcatOverwrite(fullResponse, chunk) == chunk

\* fullResponse += chunk
Concat(fullResponse, chunk) == fullResponse \o chunk

\* The catch of generateStreamingResponse throws one new Error, which ends the
\* for await of generateResponse: nothing is returned.
GenerationThrown(frame) == [frame EXCEPT !.pc = "threw", !.err = GenerationError]

genOnly == <<dbCollections, collection, init, call, ingest, tasks, ext, req, main, search>>

\* generateResponse(prompt) up to its first await: the generator runs up to
\* await model.generateContentStream(prompt).
GenerateResponseCall ==
    /\ gen.pc = "idle"
    /\ gen' = [IdleGen EXCEPT !.pc = "start"]
    /\ UNCHANGED genOnly

\* generateContentStream settled: the stream is there, or the call rejected.
StreamStartSettle ==
    /\ gen.pc = "start"
    /\ \/ gen' = [gen EXCEPT !.pc = "stream"]
       \/ gen' = GenerationThrown(gen)
    /\ UNCHANGED genOnly

\* The stream delivered a chunk: its text is yielded and appended.
StreamChunk ==
    /\ gen.pc = "stream" /\ Len(gen.arrived) < MaxChunks
    /\ \E chunk \in ChunkTexts :
         gen' = [gen EXCEPT !.arrived = Append(@, chunk),
                            !.fullResponse = Concat(@, chunk)]
    /\ UNCHANGED genOnly

\* The stream is over: the generator returns and generateResponse returns
\* fullResponse.
StreamEnd ==
    /\ gen.pc = "stream"
    /\ gen' = [gen EXCEPT !.pc = "returned", !.result = gen.fullResponse]
    /\ UNCHANGED genOnly

\* The stream threw, or chunk.text() did.
StreamFail ==
    /\ gen.pc = "stream"
    /\ gen' = GenerationThrown(gen)
    /\ UNCHANGED genOnly

\* The caller has the answer and may call again.
GenerateReturn ==
    /\ gen.pc \in {"returned", "threw"}
    /\ gen' = IdleGen
    /\ UNCHANGED genOnly

(***************************************************************************)
(* The specifications.                                                     *)
(***************************************************************************)
StoreInit ==
    /\ dbCollections \in {<<>>, <<[name |-> "test_rag", docs |-> {}]>>}
    /\ collection = Null
    /\ init = IdleInit
    /\ call = IdleCall
    /\ ingest = IdleIngest
    /\ tasks = <<>>
    /\ ext = IdleExt
    /\ req = IdleReq
    /\ gen = IdleGen
    /\ main = IdleMain
    /\ search = IdleSearch

StoreNext ==
    \/ InitializeCall \/ GetOrCreateSettle \/ CountSettle
    \/ AddCall \/ AddEmbeddingSettle \/ AddWriteSettle
    \/ QueryCall \/ QueryEmbeddingSettle \/ QueryIndexSettle
    \/ UpdateCall \/ UpdateSettle
    \/ DeleteCall \/ DeleteSettle
    \/ CallReturn

\* The store with its callers: initializeCollection and the four operations.
Spec == StoreInit /\ [][StoreNext]_vars

IngestInit ==
    /\ collection \in {Null, "test_rag"}
    /\ dbCollections = IF collection = Null THEN <<>>
                       ELSE <<[name |-> "test_rag", docs |-> {}]>>
    /\ init = IdleInit
    /\ call = IdleCall
    /\ ingest = IdleIngest
    /\ tasks = <<>>
    /\ ext = IdleExt
    /\ req = IdleReq
    /\ gen = IdleGen
    /\ main = IdleMain
    /\ search = IdleSearch

IngestNext ==
    \/ IngestCall \/ ReadCSVSettle
    \/ TaskFetchSettle \/ TaskExtractSettle \/ TaskEmbeddingSettle \/ TaskWriteSettle
    \/ BatchJoin

\* One initDBfromCSV run against a store that is initialized or not.
SpecIngest == IngestInit /\ [][IngestNext]_vars

\* The same run when every external call settles in the end (readCSV, the
\* fetch, the generative call, the embedding and the index write each resolve
\* or reject) and the event loop runs every continuation that is ready.
SpecIngestLive ==
    /\ IngestInit /\ [][IngestNext]_vars
    /\ WF_vars(ReadCSVSettle)
    /\ WF_vars(TaskFetchSettle) /\ WF_vars(TaskExtractSettle)
    /\ WF_vars(TaskEmbeddingSettle) /\ WF_vars(TaskWriteSettle)
    /\ WF_vars(BatchJoin)

ExtractInit ==
    /\ dbCollections = <<>>
    /\ collection = Null
    /\ init = IdleInit
    /\ call = IdleCall
    /\ ingest = IdleIngest
    /\ tasks = <<>>
    /\ ext = IdleExt
    /\ req = IdleReq
    /\ gen = IdleGen
    /\ main = IdleMain
    /\ search = IdleSearch

ExtractNext == ExtractCall \/ GenerateSettle \/ ExtractReturn

\* getClusteredText called with any text, the generative model answering anything.
SpecExtract == ExtractInit /\ [][ExtractNext]_vars

GenerateInit ==
    /\ dbCollections = <<>>
    /\ collection = Null
    /\ init = IdleInit
    /\ call = IdleCall
    /\ ingest = IdleIngest
    /\ tasks = <<>>
    /\ ext = IdleExt
    /\ req = IdleReq
    /\ gen = IdleGen
    /\ main = IdleMain
    /\ search = IdleSearch

GenerateNext ==
    \/ GenerateResponseCall \/ StreamStartSettle
    \/ StreamChunk \/ StreamEnd \/ StreamFail
    \/ GenerateReturn

\* generateResponse called again and again, the stream delivering anything.
SpecGenerate == GenerateInit /\ [][GenerateNext]_vars

\* The process starts: the index holds no collection, or the collection of an
\* earlier run.
ServerInit ==
    /\ dbCollections \in
          {<<>>} \cup {<<[name |-> "test_rag", docs |-> docs]>> : docs \in SUBSET AgentRecords}
    /\ collection = Null
    /\ init = IdleInit
    /\ call = IdleCall
    /\ ingest = IdleIngest
    /\ tasks = <<>>
    /\ ext = IdleExt
    /\ req = IdleReq
    /\ gen = IdleGen
    /\ main = IdleMain
    /\ search = IdleSearch

ServerNext ==
    \/ MainStart \/ GetOrCreateSettle \/ CountSettle \/ MainListen \/ MainCrash
    \/ SearchRequest \/ SearchEmbeddingSettle \/ SearchIndexSettle \/ SearchDone
    \/ ServerAgentRequest \/ AgentFetchSettle
    \/ AgentQueryEmbeddingSettle \/ AgentQueryIndexSettle
    \/ AgentStreamChunk \/ AgentStreamEnd \/ AgentStreamFail
    \/ AgentDone

\* The process from its start: main, then the requests the server is sent.
SpecServer == ServerInit /\ [][ServerNext]_vars

\* main has initialized the store and the server listens (gemini.ts:99-102).
AgentInit ==
    /\ \E docs \in SUBSET AgentRecords :
         dbCollections = <<[name |-> "test_rag", docs |-> docs]>>
    /\ collection = "test_rag"
    /\ init = IdleInit
    /\ call = IdleCall
    /\ ingest = IdleIngest
    /\ tasks = <<>>
    /\ ext = IdleExt
    /\ req = IdleReq
    /\ gen = IdleGen
    /\ main = IdleMain
    /\ search = IdleSearch

AgentNext ==
    \/ AgentRequest \/ AgentFetchSettle
    \/ AgentQueryEmbeddingSettle \/ AgentQueryIndexSettle
    \/ AgentStreamChunk \/ AgentStreamEnd \/ AgentStreamFail
    \/ AgentDone

\* The /agent handler, one request after the other.
SpecAgent == AgentInit /\ [][AgentNext]_vars

(***************************************************************************)
(* Claims about the store, checked under Spec.                             *)
(***************************************************************************)

\* C4 (as claimed): an initializeCollection call made while the index holds no
\* collection has triggered the backfill exactly once when it returns.
C4_BackfillOnEmptyIndex ==
    (init.pc = "done" /\ init.emptyAtCall) => init.backfills = 1

\* C5: calling initializeCollection again with the same name never leaves two
\* collections of one name in the index, and no call starts a backfill while
\* the collection holds documents.
C5_InitializeIdempotent ==
    /\ [](\A i, j \in 1..Len(dbCollections) :
            i # j => dbCollections[i].name # dbCollections[j].name)
    /\ [][init'.backfills > init.backfills =>
            DocsOf(dbCollections, init.name) = {}]_vars

C5_Witness ==
    /\ init.calls = 2 /\ init.pc = "done" /\ init.name = "test_rag"
    /\ Len(dbCollections) = 1
    /\ DocsOf(dbCollections, "test_rag") # {}

\* C9: an add, query, update or delete call made while the handle is null is
\* rejected at once with the not-initialized error: it has issued no embedding
\* call and no index call, and the index and the handle are as they were.
C9_FailFastUninitialized ==
    [][(call.pc = "idle" /\ call'.pc # "idle" /\ collection = Null) =>
          /\ call'.pc = "err" /\ call'.err = NotInitialized
          /\ call'.embedCalls = 0 /\ call'.indexCalls = 0
          /\ dbCollections' = dbCollections /\ collection' = collection]_vars

C9_Witness ==
    /\ collection = Null
    /\ call.op = "delete" /\ call.pc = "err" /\ call.err = NotInitialized
    /\ call.batch.ids # <<>>

\* C10: once the embedding of one document of an add call has failed, the call
\* is rejected with the embedding error, it has issued no write to the index,
\* and the index holds what it held when the call was made.
C10_AddAllOrNothing ==
    (call.op = "add" /\ \E j \in 1..Len(call.emb) : call.emb[j] = "failed") =>
        /\ call.pc = "err" /\ call.err = EmbeddingFailed
        /\ call.indexCalls = 0
        /\ DocsOf(dbCollections, "test_rag") = call.base

C10_Witness ==
    /\ call.op = "add" /\ call.pc = "err" /\ call.err = EmbeddingFailed
    /\ Len(call.docs) = 2
    /\ \E i, j \in 1..2 : call.emb[i] = "failed" /\ call.emb[j] \in {"ok", "given"}

GivenDocument(doc) == CHOOSE d \in Documents : d.id = doc.id /\ d.content = doc.content

\* C17: an add call writes to the index at most once, and only after every
\* embedding call has succeeded; when the write is issued, and when the call
\* has succeeded, it has made one embedding call for each document given
\* without an embedding and none for the others, and the one write carries all
\* documents of the call: ids, embeddings, metadata and contents by position.
C17_EmbeddingCallsAndOneWrite ==
    call.op = "add" =>
        /\ call.indexCalls <= 1
        /\ call.pc = "ok" => call.indexCalls = 1
        /\ call.indexCalls = 1 =>
              LET n == Len(call.docs)
                  given(i) == GivenDocument(call.docs[i])
              IN /\ Len(call.emb) = n
                 /\ \A i \in 1..n :
                       call.emb[i] = (IF given(i).embedding = NoEmbedding THEN "ok" ELSE "given")
                 /\ call.embedCalls =
                       Cardinality({i \in 1..n : given(i).embedding = NoEmbedding})
                 /\ Len(call.batch.ids) = n /\ Len(call.batch.embeddings) = n
                 /\ Len(call.batch.metadatas) = n /\ Len(call.batch.documents) = n
                 /\ \A i \in 1..n :
                       /\ call.batch.ids[i] = given(i).id
                       /\ call.batch.documents[i] = given(i).content
                       /\ call.batch.metadatas[i] =
                             (IF given(i).metadata = NoMetadata THEN EmptyMetadata
                              ELSE given(i).metadata)
                       /\ call.batch.embeddings[i] =
                             (IF given(i).embedding = NoEmbedding
                              THEN EmbeddingOf(given(i).content) ELSE given(i).embedding)

\* An add of two documents has succeeded: the first came without an embedding,
\* the second with one.
C17_Witness ==
    /\ call.op = "add" /\ call.pc = "ok"
    /\ call.emb = <<"ok", "given">>
    /\ call.embedCalls = 1 /\ call.indexCalls = 1
    /\ call.batch.embeddings = <<EmbeddingOf("a"), PrecomputedEmbedding>>

\* C18 (as claimed): an add, query, update or delete call a caller makes while
\* no initializeCollection call has completed successfully is rejected by the
\* not-initialized guard.
C18_GuardedUntilInitialized ==
    [][(call.pc = "idle" /\ call'.pc # "idle" /\ init.completed = 0) =>
          (call'.pc = "err" /\ call'.err = NotInitialized)]_vars

(***************************************************************************)
(* Claims about initDBfromCSV, checked under SpecIngest.                   *)
(***************************************************************************)

\* C1: batches run one after the other: whenever a task of a later batch has
\* started (it has issued its fetch, or is further on), every task of every
\* earlier batch has settled.
C1_BatchesSequential ==
    \A a, b \in DOMAIN tasks :
        ((a - 1) \div BATCH_SIZE < (b - 1) \div BATCH_SIZE /\ tasks[b].pc # "waiting")
            => tasks[a].pc \in Settled

C1_Witness ==
    /\ ingest.n > BATCH_SIZE
    /\ tasks[BATCH_SIZE + 1].pc = "add"
    /\ \E a \in 1..BATCH_SIZE : tasks[a].pc = "fail"

\* C2: at most BATCH_SIZE articles are in flight (started and not settled).
C2_AtMostBatchSizeInFlight ==
    Cardinality({k \in DOMAIN tasks : tasks[k].pc \in InFlight}) <= BATCH_SIZE

C2_Witness ==
    /\ ingest.n > BATCH_SIZE
    /\ Cardinality({k \in DOMAIN tasks : tasks[k].pc \in InFlight}) = BATCH_SIZE
    /\ \E k \in DOMAIN tasks : tasks[k].pc = "add" /\ tasks[k].add.pc = "embed"

\* C3 (as claimed): an article that fails while it is processed is recorded
\* with success:false, the fetch included: the task of an article whose fetch
\* failed never settles with success:true.
C3_FetchFailureIsRecorded ==
    [][\A k \in DOMAIN tasks :
          (tasks[k].pc \in InFlight /\ tasks[k].scraped = Sentinel(k)
             /\ tasks'[k].pc \in Settled)
          => tasks'[k].pc = "fail"]_vars

\* C3 (amended): initDBfromCSV is rejected only when readCSV is; no task is;
\* when it returns, results holds one entry per article, in list order, with
\* success:false and the error exactly for the articles whose addDocuments
\* threw, and a failed article has left no record in the index.
C3_FailureIsolation ==
    /\ ingest.pc = "threw" => tasks = <<>>
    /\ \A k \in DOMAIN tasks : tasks[k].pc # "thrown"
    /\ ingest.pc = "returned" =>
         /\ Len(ingest.results) = ingest.n
         /\ \A k \in 1..ingest.n :
              /\ tasks[k].pc \in Settled
              /\ ingest.results[k].url = k
              /\ ingest.results[k].success = (tasks[k].raised = NoError)
              /\ ingest.results[k].error = tasks[k].raised
              /\ ~ingest.results[k].success =>
                    \A r \in DocsOf(dbCollections, "test_rag") : r.id[1] # k

C3_Witness ==
    /\ ingest.pc = "returned" /\ ingest.n > BATCH_SIZE
    /\ \E i \in 1..BATCH_SIZE :
         /\ ingest.results[i].success = FALSE
         /\ ingest.results[i].error = EmbeddingFailed
         /\ \A k \in 1..ingest.n : k # i =>
               /\ ingest.results[k].success
               /\ \E r \in DocsOf(dbCollections, "test_rag") : r.id[1] = k

\* C20: the result list holds the results of the batches joined so far, one
\* entry per article in list order: entry k carries the url of article k,
\* whatever the order in which the tasks of a batch settled; when
\* initDBfromCSV returns, there is one entry for each article.
C20_ResultsInInputOrder ==
    /\ \A k \in 1..Len(ingest.results) : ingest.results[k].url = k
    /\ ingest.pc = "batch" => Len(ingest.results) = ingest.i
    /\ ingest.pc = "returned" => Len(ingest.results) = ingest.n

\* A run over two batches has returned; articles 1 and 3 failed in different
\* ways, articles 2 and 6 succeeded.
C20_Witness ==
    /\ ingest.pc = "returned" /\ ingest.n = BATCH_SIZE + 1
    /\ ingest.results[1].error = EmbeddingFailed
    /\ ingest.results[2].success
    /\ ingest.results[3].error = IndexFailed
    /\ ingest.results[BATCH_SIZE + 1].success
    /\ ingest.results[BATCH_SIZE + 1].url = BATCH_SIZE + 1

\* C15: an article for which getClusteredText returned the empty list has
\* addDocuments called with no document and leaves no record in the index;
\* its task settles and rejects nothing: initDBfromCSV goes on and, when it
\* returns, every task has settled and results holds one entry per article.
C15_EmptyExtractionIsHarmless ==
    /\ [](\A k \in DOMAIN tasks :
             tasks[k].extracted = 0 => (tasks[k].pc = "add" /\ tasks[k].add.docs = <<>>))
    /\ [][\A k \in DOMAIN tasks :
             tasks[k].extracted = 0 =>
                /\ \A r \in DocsOf(dbCollections', "test_rag") : r.id[1] # k
                /\ tasks'[k].pc \in {"add"} \cup Settled
                /\ ingest'.pc \in {"batch", "returned"}]_vars
    /\ [](ingest.pc = "returned" =>
             /\ Len(ingest.results) = ingest.n
             /\ \A k \in 1..ingest.n : tasks[k].pc \in Settled)

\* A run over two batches has returned: article 1 succeeded and left no
\* record (its extraction was empty), articles 2 and 6 left theirs.
C15_Witness ==
    /\ ingest.pc = "returned" /\ ingest.n = BATCH_SIZE + 1
    /\ ingest.results[1].success
    /\ \A r \in DocsOf(dbCollections, "test_rag") : r.id[1] # 1
    /\ \E r \in DocsOf(dbCollections, "test_rag") : r.id[1] = 2
    /\ \E r \in DocsOf(dbCollections, "test_rag") : r.id[1] = BATCH_SIZE + 1

\* The calls a task has still to see settle before it has settled itself.
StepsLeft(task) ==
    CASE task.pc = "waiting" -> 5
      [] task.pc = "fetch" -> 4
      [] task.pc = "extract" -> 3
      [] task.pc = "add" ->
            IF task.add.pc = "embed" THEN 1 + Cardinality(Pending(task.add)) ELSE 1
      [] OTHER -> 0

RECURSIVE StepsLeftUpTo(_, _)
StepsLeftUpTo(ts, k) == IF k = 0 THEN 0 ELSE StepsLeft(ts[k]) + StepsLeftUpTo(ts, k - 1)

\* What is left of a run: the steps of its tasks and the articles not joined.
WorkLeft(run, ts) ==
    StepsLeftUpTo(ts, Len(ts)) + (IF run.pc = "batch" THEN run.n - run.i ELSE 0)

\* C19 (under SpecIngestLive, where every pending call settles in the end):
\* once readCSV has given initDBfromCSV its article list, the run returns its
\* result list.  While the run is under way there is always a pending call to
\* settle or a batch to join, every step leaves strictly less work, and the
\* run leaves the loop only by returning one result per article: under the
\* fairness of SpecIngestLive the run therefore returns after finitely many
\* steps, whichever articles fail.
C19_IngestCompletes ==
    /\ [](ingest.pc = "batch" => ENABLED IngestNext)
    /\ [][ingest.pc = "batch" =>
            /\ WorkLeft(ingest', tasks') < WorkLeft(ingest, tasks)
            /\ WorkLeft(ingest', tasks') >= 0
            /\ ingest'.pc \in {"batch", "returned"}]_vars
    /\ [](ingest.pc = "returned" =>
            /\ Len(ingest.results) = ingest.n
            /\ WorkLeft(ingest, tasks) = 0)

\* A run over two batches has returned although an article of each batch
\* failed.
C19_Witness ==
    /\ ingest.pc = "returned" /\ ingest.n = BATCH_SIZE + 1
    /\ Len(ingest.results) = ingest.n
    /\ ~ingest.results[BATCH_SIZE].success
    /\ ~ingest.results[BATCH_SIZE + 1].success

(***************************************************************************)
(* Claims about getClusteredText, checked under SpecExtract.               *)
(***************************************************************************)

\* C7: every block getClusteredText returns has a string heading and a string
\* content of at least 100 characters, and what it returns is all of the
\* parsed answer of its last attempt or nothing at all.
C7_ReturnedBlocksValid ==
    ext.pc = "returned" =>
        /\ \A i \in 1..Len(ext.result) :
              /\ ~ext.result[i].isNull
              /\ ext.result[i].heading = "string"
              /\ ext.result[i].content.kind = "string"
              /\ ext.result[i].content.length >= 100
        /\ \/ ext.result = <<>>
           \/ ext.result = StripFences(ext.answers[Len(ext.answers)]).elems

C7_Witness ==
    /\ ext.pc = "returned"
    /\ Len(ext.result) = 2
    /\ ext.answers[1].fenced
    /\ ext.answers[1].body.elems[1].content.ticks = 1

\* C8: getClusteredText never throws and calls generateResponse at most
\* MAX_RETRIES times; when it returns it has stopped at the first attempt
\* whose answer parsed and validated, and after MAX_RETRIES failed attempts
\* it returns the empty list.
C8_BoundedRetryFailSoft ==
    /\ ext.pc # "threw"
    /\ ext.genCalls <= MAX_RETRIES
    /\ ext.pc = "returned" =>
         LET n == Len(ext.answers)
             Accepted(a) == /\ a # GenerationFailed
                            /\ ~ParseThrows(StripFences(a))
                            /\ IsValid(StripFences(a))
         IN /\ ext.genCalls = n
            /\ n >= 1
            /\ \A i \in 1..(n - 1) : ~Accepted(ext.answers[i])
            /\ IF Accepted(ext.answers[n])
               THEN ext.result = StripFences(ext.answers[n]).elems
               ELSE ext.result = <<>> /\ n = MAX_RETRIES

C8_Witness ==
    /\ ext.pc = "returned" /\ ext.result = <<>> /\ ext.genCalls = 1
    /\ ext.answers[1] = GenerationFailed

(***************************************************************************)
(* Claims about the /agent handler, checked under SpecAgent.               *)
(***************************************************************************)

\* The URL-shaped substring of query that runs from position i to position j.
UrlShaped(query, i, j) ==
    /\ 1 <= i /\ i < j /\ j <= Len(query)
    /\ query[i] \in Schemes
    /\ \A m \in (i + 1)..j : query[m] # Space
    /\ (j = Len(query) \/ query[j + 1] = Space)

\* C6: while a request with a string query is handled, the handler has called
\* either scrapeArticle or queryDocuments, never both: with a URL-shaped
\* substring in the query it has scraped the first one, once, and has not
\* queried the store; with none it has queried the store once, for the query
\* and 7 results, and has scraped nothing.
C6_RoutingExclusive ==
    (req.pc # "idle" /\ req.query # NotAString) =>
        IF \E i, j \in 1..Len(req.query) : UrlShaped(req.query, i, j)
        THEN /\ req.queryLog = <<>>
             /\ \E i, j \in 1..Len(req.query) :
                   /\ UrlShaped(req.query, i, j)
                   /\ \A m \in 1..(i - 1), o \in 1..Len(req.query) : ~UrlShaped(req.query, m, o)
                   /\ req.fetchLog = <<SubSeq(req.query, i, j)>>
        ELSE /\ req.fetchLog = <<>>
             /\ req.queryLog = <<[text |-> req.query, topK |-> 7]>>

C6_Witness ==
    /\ req.pc = "ended"
    /\ req.query = <<"http://", "x", " ", "https://", "x">>
    /\ req.fetchLog = <<<<"http://", "x">>>>
    /\ req.queryLog = <<>>

\* C12: scrapeArticle never rejects: the handler leaves its await with the
\* article and goes on to generate; when the request failed, timed out or the
\* parsing threw, the article is the sentinel {title: "Can not load
\* information", content: "", url: the requested url, time: null} and the
\* context of the request is the empty string.
C12_SentinelNotError ==
    /\ [][req.pc = "fetch" =>
            (req'.pc = "generate" /\ req'.fetched.outcome \in ScrapeOutcomes)]_vars
    /\ [](req.fetched.outcome \in ScrapeOutcomes \ {"page"} =>
            /\ req.fetched.article =
                  [title |-> "Can not load information", content |-> "",
                   url |-> FirstUrl(req.query), time |-> Null]
            /\ req.context = <<"">>)

\* The parsing of the fetched page threw; the answer was generated from the
\* empty context and the response has ended.
C12_Witness ==
    /\ req.pc = "ended" /\ req.written > 0
    /\ req.fetched.outcome = "parseThrew"
    /\ req.fetched.article.url = <<"https://", "x">>
    /\ req.context = <<"">>

(***************************************************************************)
(* Claims about generateResponse, checked under SpecGenerate.              *)
(***************************************************************************)

\* The chunk texts of a list put one after the other.
RECURSIVE Flatten(_)
Flatten(chunks) == IF chunks = <<>> THEN <<>> ELSE Head(chunks) \o Flatten(Tail(chunks))

\* C16: when generateResponse returns, it returns the texts of the chunks the
\* stream delivered, joined in the order they arrived; when the stream fails,
\* at its start or after some chunks, generateResponse throws the one
\* generation error and returns nothing, no partial string either.
C16_ConcatenationOrError ==
    /\ gen.pc = "returned" => (gen.result = Flatten(gen.arrived) /\ gen.err = NoError)
    /\ gen.pc = "threw" => (gen.result = NoResult /\ gen.err = GenerationError)
    /\ gen.pc \in {"start", "stream"} => (gen.result = NoResult /\ gen.err = NoError)

\* Three chunks arrived, the second one empty, and the answer was returned.
C16_Witness ==
    /\ gen.pc = "returned"
    /\ gen.arrived = <<<<"a">>, <<>>, <<"a", "b">>>>
    /\ gen.result = <<"a", "a", "b">>

(***************************************************************************)
(* Claims about the server, checked under SpecServer.                      *)
(***************************************************************************)

\* C13: the server listens only once initializeCollection has returned
\* normally, with no backfill under way; a request is handled only while the
\* server listens; and after a failed initializeCollection it never listens.
C13_ListenAfterInitialize ==
    /\ Listening(main) =>
          /\ init.pc = "done" /\ init.completed = 1
          /\ ingest.pc \notin {"readCSV", "batch"}
    /\ (search.pc # "idle" \/ req.pc # "idle") => Listening(main)
    /\ init.pc = "failed" => ~Listening(main)

\* The server listens and has answered a /search request while an /agent
\* request is streaming its answer.
C13_Witness ==
    /\ Listening(main) /\ init.pc = "done"
    /\ search.pc = "done" /\ search.response.status = 200
    /\ req.pc = "generate" /\ req.written > 0

\* C14 (as claimed): a request whose retrieval or generation step failed has
\* got the generic failure response once its handler is through.
C14_FailedRequestAnswered ==
    /\ (search.pc = "done" /\ search.failed) => search.response.status = 500
    /\ req.pc # "broken"

====
